---- MODULE Spec2Model ----
(***************************************************************************)
(* Pattern matching and splitting over byte buffers that are mostly, but   *)
(* not necessarily, valid UTF-8 (osstring_prototype, src/split_bytes.rs).  *)
(*                                                                         *)
(* Offsets are 0-based byte offsets as in the source; a byte string is a   *)
(* sequence of integers 0..255.  Option<T> is a sequence of length <= 1:   *)
(* <<>> is None and <<x>> is Some(x).  A pair (a, b) is the tuple <<a, b>>.*)
(***************************************************************************)
EXTENDS Integers, Sequences, FiniteSets, TLC

(***************************************************************************)
(* Bounds of the model.                                                    *)
(***************************************************************************)
\* Longest buffer that is enumerated over Alphabet.
MaxLen == 3

\* Bytes the enumerated buffers are built from: 'a', 'l' and the byte 0xFF,
\* which can appear in no valid UTF-8 sequence.
Alphabet == {97, 108, 255}

\* "hello", and "he" 0xFF "llo": the buffers of the documented scenarios.
Hello == <<104, 101, 108, 108, 111>>
HeXllo == <<104, 101, 255, 108, 108, 111>>

\* 'a' 0xC3 0xA9 'a': a buffer holding the two-byte character U+00E9.
AEacuteA == <<97, 195, 169, 97>>

RECURSIVE SeqsUpTo(_, _)
SeqsUpTo(S, n) ==
    IF n = 0 THEN {<<>>}
    ELSE LET shorter == SeqsUpTo(S, n - 1)
         IN  shorter \cup {Append(s, x) : s \in {t \in shorter : Len(t) = n - 1}, x \in S}

Buffers == SeqsUpTo(Alphabet, MaxLen) \cup {Hello, HeXllo, AEacuteA}

\* Patterns: a single char (its engine is double-ended) or a literal string
\* (its engine searches forward and backward, but is not double-ended).
CharL == [kind |-> "char", needle |-> <<108>>]
CharA == [kind |-> "char", needle |-> <<97>>]
StrEmpty == [kind |-> "str", needle |-> <<>>]
StrAA == [kind |-> "str", needle |-> <<97, 97>>]
StrL == [kind |-> "str", needle |-> <<108>>]
Patterns == {CharL, CharA, StrEmpty, StrAA, StrL}

\* P::Searcher: DoubleEndedSearcher holds for char, not for &str.
DoubleEnded(pat) == pat.kind = "char"

(***************************************************************************)
(* Byte strings.                                                           *)
(***************************************************************************)
\* &s[a..b]: the bytes at offsets a .. b-1.
Slice(s, a, b) == SubSeq(s, a + 1, b)

\* Does &s[a..b] stay in range (a <= b <= s.len())?  Otherwise it panics.
InRange(s, a, b) == a <= b /\ b <= Len(s)

Reverse(s) == [i \in 1..Len(s) |-> s[Len(s) + 1 - i]]

\* Length of the UTF-8 character that starts at offset i of b, 0 when no
\* well-formed character starts there (one- and two-byte forms).
CharLenAt(b, i) ==
    IF i >= Len(b) THEN 0
    ELSE IF b[i + 1] < 128 THEN 1
    ELSE IF b[i + 1] \in 194..223 /\ i + 1 < Len(b) /\ b[i + 2] \in 128..191 THEN 2
    ELSE 0

\* Length of the character of the valid text b that ends at offset e.
CharLenBefore(b, e) == IF b[e] < 128 THEN 1 ELSE 2

RECURSIVE ValidFrom(_, _)
ValidFrom(b, i) ==
    IF i >= Len(b) THEN TRUE
    ELSE CharLenAt(b, i) > 0 /\ ValidFrom(b, i + CharLenAt(b, i))

\* str::from_utf8(b).is_ok()
IsUtf8(b) == ValidFrom(b, 0)

(***************************************************************************)
(* Section Partitioner (Utf8Sections): the maximal runs of valid UTF-8     *)
(* text of a buffer as (start_offset, text) pairs, pulled from either end. *)
(***************************************************************************)
RECURSIVE SecScan(_, _, _, _)
SecScan(b, i, runStart, acc) ==
    IF i >= Len(b)
    THEN IF runStart >= 0 THEN Append(acc, <<runStart, Slice(b, runStart, i)>>) ELSE acc
    ELSE LET n == CharLenAt(b, i)
         IN  IF n > 0
             THEN SecScan(b, i + n, IF runStart >= 0 THEN runStart ELSE i, acc)
             ELSE SecScan(b, i + 1, -1,
                          IF runStart >= 0
                          THEN Append(acc, <<runStart, Slice(b, runStart, i)>>)
                          ELSE acc)

SectionsOf(b) == SecScan(b, 0, -1, <<>>)

\* Utf8Sections::new: nothing pulled yet from either end.
Utf8SectionsNew(b) == [all |-> SectionsOf(b), front |-> 0, back |-> 0]

\* Utf8Sections::next / next_back: [it |-> the iterator after, out |-> Option].
Utf8SectionsNext(it) ==
    IF it.front + it.back < Len(it.all)
    THEN [it |-> [it EXCEPT !.front = @ + 1], out |-> <<it.all[it.front + 1]>>]
    ELSE [it |-> it, out |-> <<>>]

\* Utf8Sections::next_back pulling the section the front end would pull next.
Utf8SectionsNextBack_FromFront(it) ==
    IF it.front + it.back < Len(it.all)
    THEN [it |-> [it EXCEPT !.back = @ + 1], out |-> <<it.all[it.front + 1]>>]
    ELSE [it |-> it, out |-> <<>>]

Utf8SectionsNextBack(it) ==
    IF it.front + it.back < Len(it.all)
    THEN [it |-> [it EXCEPT !.back = @ + 1], out |-> <<it.all[Len(it.all) - it.back]>>]
    ELSE [it |-> it, out |-> <<>>]

(***************************************************************************)
(* Search engines of core::str::pattern, bound to one text.                *)
(* A searcher is [kind, haystack, needle, start, end, done]: start and end *)
(* bound the part of the haystack not yet searched from either side.       *)
(***************************************************************************)
\* Pattern::into_searcher
IntoSearcher(pat, text) ==
    [kind |-> pat.kind, haystack |-> text, needle |-> pat.needle,
     start |-> 0, end |-> Len(text), done |-> FALSE]

\* CharSearcher: a double-ended walk over the characters of the haystack.
RECURSIVE CharNextMatch(_)
CharNextMatch(s) ==
    IF s.start >= s.end THEN [s |-> s, m |-> <<>>]
    ELSE LET n == CharLenAt(s.haystack, s.start)
             s1 == [s EXCEPT !.start = @ + n]
         IN  IF Slice(s.haystack, s.start, s.start + n) = s.needle
             THEN [s |-> s1, m |-> <<<<s.start, s.start + n>>>>]
             ELSE CharNextMatch(s1)

RECURSIVE CharNextMatchBack(_)
CharNextMatchBack(s) ==
    IF s.start >= s.end THEN [s |-> s, m |-> <<>>]
    ELSE LET n == CharLenBefore(s.haystack, s.end)
             s1 == [s EXCEPT !.end = @ - n]
         IN  IF Slice(s.haystack, s.end - n, s.end) = s.needle
             THEN [s |-> s1, m |-> <<<<s.end - n, s.end>>>>]
             ELSE CharNextMatchBack(s1)

\* StrSearcher: leftmost non-overlapping occurrences forward, rightmost
\* non-overlapping occurrences backward; the empty needle matches at every
\* character boundary, the two ends of the haystack included.
RECURSIVE StrNextMatch(_)
StrNextMatch(s) ==
    IF s.done THEN [s |-> s, m |-> <<>>]
    ELSE IF s.needle = <<>> /\ s.start <= s.end
    THEN LET last == s.start = s.end
             s1 == IF last THEN [s EXCEPT !.done = TRUE]
                   ELSE [s EXCEPT !.start = @ + CharLenAt(s.haystack, s.start)]
         IN  [s |-> s1, m |-> <<<<s.start, s.start>>>>]
    ELSE IF s.start + Len(s.needle) <= s.end
    THEN IF Slice(s.haystack, s.start, s.start + Len(s.needle)) = s.needle
         THEN [s |-> [s EXCEPT !.start = @ + Len(s.needle)],
               m |-> <<<<s.start, s.start + Len(s.needle)>>>>]
         ELSE StrNextMatch([s EXCEPT !.start = @ + CharLenAt(s.haystack, s.start)])
    ELSE [s |-> [s EXCEPT !.done = TRUE], m |-> <<>>]

RECURSIVE StrNextMatchBack(_)
StrNextMatchBack(s) ==
    IF s.done THEN [s |-> s, m |-> <<>>]
    ELSE IF s.needle = <<>> /\ s.start <= s.end
    THEN LET last == s.start = s.end
             s1 == IF last THEN [s EXCEPT !.done = TRUE]
                   ELSE [s EXCEPT !.end = @ - CharLenBefore(s.haystack, s.end)]
         IN  [s |-> s1, m |-> <<<<s.end, s.end>>>>]
    ELSE IF s.start + Len(s.needle) <= s.end
    THEN IF Slice(s.haystack, s.end - Len(s.needle), s.end) = s.needle
         THEN [s |-> [s EXCEPT !.end = @ - Len(s.needle)],
               m |-> <<<<s.end - Len(s.needle), s.end>>>>]
         ELSE StrNextMatchBack([s EXCEPT !.end = @ - CharLenBefore(s.haystack, s.end)])
    ELSE [s |-> [s EXCEPT !.done = TRUE], m |-> <<>>]

\* Searcher::next_match and ReverseSearcher::next_match_back:
\* [s |-> the searcher after, m |-> Option<(start, end)>].
NextMatch(s) == IF s.kind = "char" THEN CharNextMatch(s) ELSE StrNextMatch(s)

NextMatchBack(s) == IF s.kind = "char" THEN CharNextMatchBack(s) ELSE StrNextMatchBack(s)

(***************************************************************************)
(* Bidirectional Match Driver (MatchImpl).                                 *)
(* A driver is [sections, front_searcher, back_searcher, front_section,    *)
(* back_section]; the pattern is passed alongside.  Every operation        *)
(* returns [m |-> the driver after, out |-> Option<(offset, text)>,        *)
(* panic |-> whether a slice went out of range].                           *)
(***************************************************************************)
\* MatchImpl::new
MatchImplNew(slice) ==
    [sections |-> Utf8SectionsNew(slice),
     front_searcher |-> <<>>,
     back_searcher |-> <<>>,
     front_section |-> <<0, <<>>>>,
     back_section |-> <<Len(slice), <<>>>>]

\* self.front_section.0 == self.back_section.0
Converged(m) == m.front_section[1] = m.back_section[1]

\* Translate with the end of the match added to the section's offset.
Translate_AtEnd(section, start, end) ==
    IF InRange(section[2], start, end)
    THEN [out |-> <<<<section[1] + end, Slice(section[2], start, end)>>>>, panic |-> FALSE]
    ELSE [out |-> <<>>, panic |-> TRUE]

\* Translate with the section's start offset left out.
Translate_NoOffset(section, start, end) ==
    IF InRange(section[2], start, end)
    THEN [out |-> <<<<start, Slice(section[2], start, end)>>>>, panic |-> FALSE]
    ELSE [out |-> <<>>, panic |-> TRUE]

\* (section.0 + start, &section.1[start..end]); the slice panics when the
\* range does not lie inside the section's text.
Translate(section, start, end) ==
    IF InRange(section[2], start, end)
    THEN [out |-> <<<<section[1] + start, Slice(section[2], start, end)>>>>, panic |-> FALSE]
    ELSE [out |-> <<>>, panic |-> TRUE]

\* The converged branch: searcher = front_searcher.or(back_searcher), asked
\* for its next match in direction dir and translated by `section`.
SharedStep(m, section, dir) ==
    LET useFront == m.front_searcher # <<>>
        useBack == ~useFront /\ m.back_searcher # <<>>
    IN  IF ~useFront /\ ~useBack THEN [m |-> m, out |-> <<>>, panic |-> FALSE]
        ELSE LET s == IF useFront THEN m.front_searcher[1] ELSE m.back_searcher[1]
                 r == IF dir = "front" THEN NextMatch(s) ELSE NextMatchBack(s)
                 m1 == IF useFront THEN [m EXCEPT !.front_searcher = <<r.s>>]
                       ELSE [m EXCEPT !.back_searcher = <<r.s>>]
             IN  IF r.m = <<>> THEN [m |-> m1, out |-> <<>>, panic |-> FALSE]
                 ELSE LET t == Translate(section, r.m[1][1], r.m[1][2])
                      IN  [m |-> m1, out |-> t.out, panic |-> t.panic]

\* What the front cursor does when it has no live engine and the
\* partitioner has no section left: it jumps to the back cursor's section.
FrontJoinsBack(m) == [m EXCEPT !.front_section = m.back_section]

\* The back cursor jumping to the front cursor's section and taking a
\* copy of its engine along.
BackJoinsFront_WithEngine(m) ==
    [m EXCEPT !.back_section = m.front_section, !.back_searcher = m.front_searcher]

BackJoinsFront(m) == [m EXCEPT !.back_section = m.front_section]

RECURSIVE MatchImplNext(_, _)
RECURSIVE MatchImplNextBack(_, _)

\* Lines 127-133: ask the front engine; on exhaustion discard it and loop.
FrontStep(m, pat) ==
    LET r == NextMatch(m.front_searcher[1])
        m1 == [m EXCEPT !.front_searcher = <<r.s>>]
    IN  IF r.m # <<>>
        THEN LET t == Translate(m.front_section, r.m[1][1], r.m[1][2])
             IN  [m |-> m1, out |-> t.out, panic |-> t.panic]
        ELSE MatchImplNext([m EXCEPT !.front_searcher = <<>>], pat)

\* MatchImpl::next
MatchImplNext(m, pat) ==
    IF Converged(m) THEN SharedStep(m, m.front_section, "front")
    ELSE IF m.front_searcher = <<>>
    THEN LET p == Utf8SectionsNext(m.sections)
         IN  IF p.out # <<>>
             THEN FrontStep([m EXCEPT !.sections = p.it,
                                      !.front_section = p.out[1],
                                      !.front_searcher = <<IntoSearcher(pat, p.out[1][2])>>],
                            pat)
             ELSE MatchImplNext(FrontJoinsBack(m), pat)
    ELSE FrontStep(m, pat)

\* BackStep asking the engine for its next forward match.
BackStep_Forward(m, pat) ==
    LET r == NextMatch(m.back_searcher[1])
        m1 == [m EXCEPT !.back_searcher = <<r.s>>]
    IN  IF r.m # <<>>
        THEN LET t == Translate(m.back_section, r.m[1][1], r.m[1][2])
             IN  [m |-> m1, out |-> t.out, panic |-> t.panic]
        ELSE MatchImplNextBack([m EXCEPT !.back_searcher = <<>>], pat)

\* Lines 160-166: ask the back engine; on exhaustion discard it and loop.
BackStep(m, pat) ==
    LET r == NextMatchBack(m.back_searcher[1])
        m1 == [m EXCEPT !.back_searcher = <<r.s>>]
    IN  IF r.m # <<>>
        THEN LET t == Translate(m.back_section, r.m[1][1], r.m[1][2])
             IN  [m |-> m1, out |-> t.out, panic |-> t.panic]
        ELSE MatchImplNextBack([m EXCEPT !.back_searcher = <<>>], pat)

\* MatchImpl::next_back
MatchImplNextBack(m, pat) ==
    IF Converged(m) THEN SharedStep(m, m.back_section, "back")
    ELSE IF m.back_searcher = <<>>
    THEN LET p == Utf8SectionsNextBack(m.sections)
         IN  IF p.out # <<>>
             THEN BackStep([m EXCEPT !.sections = p.it,
                                     !.back_section = p.out[1],
                                     !.back_searcher = <<IntoSearcher(pat, p.out[1][2])>>],
                           pat)
             ELSE MatchImplNextBack(BackJoinsFront(m), pat)
    ELSE BackStep(m, pat)

(***************************************************************************)
(* Split Driver (SplitImpl): [matches, remainder] over the buffer `slice`. *)
(* Every operation returns [s |-> the driver after, out |-> Option<bytes>, *)
(* panic |-> whether a slice went out of range].                           *)
(***************************************************************************)
\* SplitImpl::new with the remainder left empty.
SplitImplNew_EmptyRemainder(slice) == [matches |-> MatchImplNew(slice), remainder |-> <<0, 0>>]

\* SplitImpl::new
SplitImplNew(slice) == [matches |-> MatchImplNew(slice), remainder |-> <<0, Len(slice)>>]

\* The exhaustion test off by one: an empty remainder counts as exhausted.
Exhausted_OrEmpty(s) == s.remainder[2] <= s.remainder[1]

\* The exhaustion test off by one the other way: the terminal marker
\* (low = high + 1) does not count as exhausted.
Exhausted_Late(s) == s.remainder[2] + 1 < s.remainder[1]

\* self.remainder.1 < self.remainder.0
Exhausted(s) == s.remainder[2] < s.remainder[1]

\* &self.slice[a..b], or a panic
SliceOrPanic(s, slice, a, b) ==
    IF InRange(slice, a, b)
    THEN [s |-> s, out |-> <<Slice(slice, a, b)>>, panic |-> FALSE]
    ELSE [s |-> s, out |-> <<>>, panic |-> TRUE]

\* The forward piece running up to the end of the match.
FrontPieceRange_WithMatch(remainder, start, mat) == <<remainder[1], start + Len(mat)>>

\* &self.slice[self.remainder.0..start]
FrontPieceRange(remainder, start, mat) == <<remainder[1], start>>

\* The remainder restarting at the start of the match.
AfterFrontMatch_AtStart(remainder, start, mat) == <<start, remainder[2]>>

\* self.remainder.0 = start + mat.len()
AfterFrontMatch(remainder, start, mat) == <<start + Len(mat), remainder[2]>>

\* The remainder ending at the end of the match.
AfterBackMatch_AtEnd(remainder, start, mat) == <<remainder[1], start + Len(mat)>>

\* self.remainder.1 = start
AfterBackMatch(remainder, start, mat) == <<remainder[1], start>>

\* &self.slice[start + mat.len()..self.remainder.1]
BackPieceRange(remainder, start, mat) == <<start + Len(mat), remainder[2]>>

\* The terminal marker without the + 1.
Terminal_Same(remainder) == <<remainder[2], remainder[2]>>

\* self.remainder.0 = self.remainder.1 + 1
Terminal(remainder) == <<remainder[2] + 1, remainder[2]>>

\* The else branch yielding the slice from its start.
FinalPiece_FromStart(s, slice) ==
    SliceOrPanic([s EXCEPT !.remainder = Terminal(s.remainder)], slice,
                 0, s.remainder[2])

\* The else branch of next and next_back: the piece between the last
\* matches from either side, then the terminal marker.
FinalPiece(s, slice) ==
    SliceOrPanic([s EXCEPT !.remainder = Terminal(s.remainder)], slice,
                 s.remainder[1], s.remainder[2])

\* SplitImpl::next
SplitImplNext(s, slice, pat) ==
    IF Exhausted(s) THEN [s |-> s, out |-> <<>>, panic |-> FALSE]
    ELSE LET r == MatchImplNext(s.matches, pat)
             s1 == [s EXCEPT !.matches = r.m]
         IN  IF r.panic THEN [s |-> s1, out |-> <<>>, panic |-> TRUE]
             ELSE IF r.out # <<>>
             THEN LET start == r.out[1][1]
                      mat == r.out[1][2]
                      range == FrontPieceRange(s.remainder, start, mat)
                  IN  SliceOrPanic([s1 EXCEPT !.remainder = AfterFrontMatch(@, start, mat)],
                                   slice, range[1], range[2])
             ELSE FinalPiece(s1, slice)

\* SplitImpl::next_back
SplitImplNextBack(s, slice, pat) ==
    IF Exhausted(s) THEN [s |-> s, out |-> <<>>, panic |-> FALSE]
    ELSE LET r == MatchImplNextBack(s.matches, pat)
             s1 == [s EXCEPT !.matches = r.m]
         IN  IF r.panic THEN [s |-> s1, out |-> <<>>, panic |-> TRUE]
             ELSE IF r.out # <<>>
             THEN LET start == r.out[1][1]
                      mat == r.out[1][2]
                      range == BackPieceRange(s.remainder, start, mat)
                  IN  SliceOrPanic([s1 EXCEPT !.remainder = AfterBackMatch(@, start, mat)],
                                   slice, range[1], range[2])
             ELSE FinalPiece(s1, slice)

\* SplitN::next (dir "f") and RSplitN::next (dir "b") over the Split Driver:
\* [s, out, panic].  The last piece allowed is the remainder as it
\* stands; before that the driver is stepped.
SplitNImplNext(s, count, slice, pat, dir) ==
    IF count = 0 THEN [s |-> s, out |-> <<>>, panic |-> FALSE]
    ELSE IF count = 1
    THEN IF Exhausted(s) THEN [s |-> s, out |-> <<>>, panic |-> FALSE]
         ELSE FinalPiece(s, slice)
    ELSE IF dir = "f" THEN SplitImplNext(s, slice, pat)
         ELSE SplitImplNextBack(s, slice, pat)

\* The count field after a call of SplitN::next.
SplitNCountAfter(count) == IF count = 0 THEN 0 ELSE count - 1

\* impl Clone for MatchImpl, with the two engines left out of the copy.
MatchImplClone_NoSearchers(m) ==
    [sections |-> m.sections,
     front_searcher |-> <<>>,
     back_searcher |-> <<>>,
     front_section |-> m.front_section,
     back_section |-> m.back_section]

\* impl Clone for MatchImpl: every field is cloned (the pattern is passed
\* alongside the driver and is the same for both copies).
MatchImplClone(m) ==
    [sections |-> m.sections,
     front_searcher |-> m.front_searcher,
     back_searcher |-> m.back_searcher,
     front_section |-> m.front_section,
     back_section |-> m.back_section]

\* impl Clone for SplitImpl (the borrowed slice is shared).
SplitImplClone(s) == [matches |-> MatchImplClone(s.matches), remainder |-> s.remainder]

\* One call on an iterator of kind k: dir "f" is next(), "b" is next_back().
DriverCall(k, d, b, p, dir) ==
    IF k = "Matches"
    THEN LET r == IF dir = "f" THEN MatchImplNext(d.matches, p)
                  ELSE MatchImplNextBack(d.matches, p)
         IN  [s |-> [d EXCEPT !.matches = r.m], out |-> r.out, panic |-> r.panic]
    ELSE IF dir = "f" THEN SplitImplNext(d, b, p) ELSE SplitImplNextBack(d, b, p)

(***************************************************************************)
(* OsString / OsStr over the platform representation: on "unix" the        *)
(* content is any byte sequence, on "windows" it is WTF-8 (UTF-8 extended  *)
(* by three-byte encodings of unpaired surrogates).  A Result is           *)
(* [ok, val]; an Option is a sequence of length at most one.               *)
(***************************************************************************)
\* Content of an OsString is built up to this many bytes.
MaxOsLen == 4

\* The WTF-8 encoding of the unpaired surrogate U+D800.
SurrogateD800 == <<237, 160, 128>>

\* The UTF-8 encoding of U+00E9.
EAcute == <<195, 169>>

\* OsString::new
OsStringNew(platform) == [platform |-> platform, inner |-> <<>>]

\* String::from_utf8: Ok(the text) or Err(e), e.into_bytes() the input.
StringFromUtf8(v) == [ok |-> IsUtf8(v), val |-> v]

\* A three-byte sequence in b that encodes a surrogate (0xED 0xA0..0xBF ..).
HasSurrogate(b) == \E i \in 1..(Len(b) - 2) : b[i] = 237 /\ b[i + 1] \in 160..191

\* Wtf8Buf::into_string
Wtf8BufIntoString(b) == [ok |-> ~HasSurrogate(b), val |-> b]

\* Wtf8::as_str
Wtf8AsStr(b) == IF HasSurrogate(b) THEN <<>> ELSE <<b>>

\* Buf::into_string giving back an empty buffer on failure.
BufIntoString_Emptied(platform, inner) ==
    IF platform = "unix"
    THEN LET r == StringFromUtf8(inner)
         IN  IF r.ok THEN r ELSE [ok |-> FALSE, val |-> <<>>]
    ELSE Wtf8BufIntoString(inner)

\* Buf::into_string
BufIntoString(platform, inner) ==
    IF platform = "unix"
    THEN LET r == StringFromUtf8(inner)
         IN  IF r.ok THEN r ELSE [ok |-> FALSE, val |-> r.val]
    ELSE Wtf8BufIntoString(inner)

\* OsString::into_string
OsStringIntoString(platform, inner) ==
    LET r == BufIntoString(platform, inner)
    IN  IF r.ok THEN r ELSE [ok |-> FALSE, val |-> r.val]

\* Buf::push_slice putting the piece in front.
BufPushSlice_Front(platform, inner, s) == s \o inner

\* Buf::push_slice
BufPushSlice(platform, inner, s) == inner \o s

\* Slice::to_str without the validity check.
SliceToStr_Unchecked(platform, inner) == <<inner>>

\* Slice::to_str
SliceToStr(platform, inner) ==
    IF platform = "unix"
    THEN (IF IsUtf8(inner) THEN <<inner>> ELSE <<>>)
    ELSE Wtf8AsStr(inner)

\* OsStr::to_str
OsStrToStr(platform, inner) == SliceToStr(platform, inner)

\* OsStr::to_bytes taking the text route on every platform.
OsStrToBytes_ViaStr(platform, inner) == OsStrToStr(platform, inner)

\* OsStr::to_bytes
OsStrToBytes(platform, inner) ==
    IF platform = "windows" THEN OsStrToStr(platform, inner) ELSE <<inner>>

\* CString::new: Err when the bytes hold a zero byte.
CStringNew(b) == [ok |-> \A i \in 1..Len(b) : b[i] # 0, val |-> b]

\* OsStr::to_cstring keeping the bytes whatever they hold.
OsStrToCstring_Unchecked(platform, inner) == OsStrToBytes(platform, inner)

\* OsStr::to_cstring
OsStrToCstring(platform, inner) ==
    LET b == OsStrToBytes(platform, inner)
    IN  IF b = <<>> THEN <<>>
        ELSE IF CStringNew(b[1]).ok THEN <<CStringNew(b[1]).val>> ELSE <<>>

\* Buf::from_string (windows: Wtf8Buf::from_string): the bytes of the text.
BufFromString(platform, text) == text

\* From<String> for OsString
OsStringFrom(platform, text) == [platform |-> platform, inner |-> BufFromString(platform, text)]

\* OsString::_from_bytes checking the bytes on every platform.
OsStringFromBytes_Checked(platform, vec) ==
    IF StringFromUtf8(vec).ok THEN <<OsStringFrom(platform, StringFromUtf8(vec).val)>> ELSE <<>>

\* OsString::_from_bytes: Option<OsString>
OsStringFromBytes(platform, vec) ==
    IF platform = "unix"
    THEN <<[platform |-> platform, inner |-> vec]>>
    ELSE IF StringFromUtf8(vec).ok
         THEN <<OsStringFrom(platform, StringFromUtf8(vec).val)>>
         ELSE <<>>

\* The UTF-8 encoding of U+FFFD REPLACEMENT CHARACTER.
Replacement == <<239, 191, 189>>

\* String::from_utf8_lossy, the decoding loop: a well-formed character is
\* copied, a byte that starts none is replaced by U+FFFD.
RECURSIVE LossyScan(_, _, _)
LossyScan(b, i, acc) ==
    IF i >= Len(b) THEN acc
    ELSE IF CharLenAt(b, i) > 0
         THEN LossyScan(b, i + CharLenAt(b, i), acc \o Slice(b, i, i + CharLenAt(b, i)))
         ELSE LossyScan(b, i + 1, acc \o Replacement)

\* String::from_utf8_lossy: Cow::Borrowed(the input) when it is valid,
\* Cow::Owned(the decoded text) otherwise.
StringFromUtf8Lossy(v) ==
    IF IsUtf8(v) THEN [borrowed |-> TRUE, text |-> v]
    ELSE [borrowed |-> FALSE, text |-> LossyScan(v, 0, <<>>)]

\* Slice::to_string_lossy
SliceToStringLossy(inner) == StringFromUtf8Lossy(inner)

\* Buf::clear
BufClear(inner) == <<>>

\* SliceSearcher::new
SliceSearcherNew(haystack, needle) ==
    [haystack |-> haystack, needle |-> needle, position |-> 0]

\* SliceSearcher as Iterator: the next offset at which the needle occurs.
RECURSIVE SliceSearcherNext(_)
SliceSearcherNext(s) ==
    IF s.position + Len(s.needle) > Len(s.haystack)
    THEN [s |-> s, out |-> <<>>]
    ELSE IF Slice(s.haystack, s.position, s.position + Len(s.needle)) = s.needle
         THEN [s |-> [s EXCEPT !.position = @ + 1], out |-> <<s.position>>]
         ELSE SliceSearcherNext([s EXCEPT !.position = @ + 1])

\* Slice::contains_os testing the front of the haystack only.
SliceContainsOs_AtStart(inner, needle) ==
    Len(needle) <= Len(inner) /\ Slice(inner, 0, Len(needle)) = needle

\* Slice::contains_os
SliceContainsOs(inner, needle) ==
    SliceSearcherNext(SliceSearcherNew(inner, needle)).out # <<>>

\* e.valid_up_to() of str::from_utf8(&b[i..]), as an offset of b: the scan
\* stops at the first byte that starts no well-formed character.
RECURSIVE ValidUpTo(_, _)
ValidUpTo(b, i) ==
    IF CharLenAt(b, i) = 0 THEN i ELSE ValidUpTo(b, i + CharLenAt(b, i))

\* utf8_prefix of slice_shift_char and split_off_str: the whole buffer when
\* it is valid, else the part before the first invalid byte.
Utf8Prefix(inner) ==
    IF IsUtf8(inner) THEN inner ELSE Slice(inner, 0, ValidUpTo(inner, 0))

\* &inner[a..]: [val, panic]; panics when a is past the end.
SliceFrom(inner, a) ==
    IF a <= Len(inner)
    THEN [val |-> Slice(inner, a, Len(inner)), panic |-> FALSE]
    ELSE [val |-> <<>>, panic |-> TRUE]

\* Slice::slice_shift_char splitting off the first byte, whatever it is.
SliceShiftChar_FirstByte(inner) ==
    IF inner = <<>>
    THEN [out |-> <<>>, panic |-> FALSE]
    ELSE [out |-> << <<Slice(inner, 0, 1), Slice(inner, 1, Len(inner))>> >>, panic |-> FALSE]

\* Slice::slice_shift_char: [out |-> Option<(char, rest)>, panic]; a char is
\* written as its encoding.
SliceShiftChar(inner) ==
    LET utf8_prefix == Utf8Prefix(inner)
    IN  IF utf8_prefix = <<>>
        THEN [out |-> <<>>, panic |-> FALSE]
        ELSE LET first == Slice(utf8_prefix, 0, CharLenAt(utf8_prefix, 0))
                 rest == SliceFrom(inner, Len(first))
             IN  [out |-> IF rest.panic THEN <<>> ELSE << <<first, rest.val>> >>,
                  panic |-> rest.panic]

\* str::find(char): the offset of the first character of text equal to c.
RECURSIVE StrFindChar(_, _, _)
StrFindChar(text, c, i) ==
    IF i >= Len(text) THEN <<>>
    ELSE IF Slice(text, i, i + CharLenAt(text, i)) = c THEN <<i>>
    ELSE StrFindChar(text, c, i + CharLenAt(text, i))

\* Slice::split_off_str searching the whole buffer, invalid bytes included.
SliceSplitOffStr_WholeBuffer(inner, boundary) ==
    LET found == SliceSearcherNext(SliceSearcherNew(inner, boundary)).out
    IN  IF found = <<>>
        THEN [out |-> <<>>, panic |-> FALSE]
        ELSE [out |-> << <<Slice(inner, 0, found[1]),
                           Slice(inner, found[1] + Len(boundary), Len(inner))>> >>,
              panic |-> FALSE]

\* Slice::split_off_str: [out |-> Option<(&str, rest)>, panic]
SliceSplitOffStr(inner, boundary) ==
    LET utf8_prefix == Utf8Prefix(inner)
        found == StrFindChar(utf8_prefix, boundary, 0)
    IN  IF found = <<>>
        THEN [out |-> <<>>, panic |-> FALSE]
        ELSE LET rest == SliceFrom(inner, found[1] + Len(boundary))
             IN  [out |-> IF rest.panic THEN <<>>
                          ELSE << <<Slice(utf8_prefix, 0, found[1]), rest.val>> >>,
                  panic |-> rest.panic]

\* <[u8]>::starts_with
BytesStartsWith(inner, needle) ==
    Len(inner) >= Len(needle) /\ needle = Slice(inner, 0, Len(needle))

\* Slice::starts_with_str
SliceStartsWithStr(inner, prefix) == BytesStartsWith(inner, prefix)

\* Slice::remove_prefix_str accepting only a buffer that is valid UTF-8.
SliceRemovePrefixStr_ValidOnly(inner, prefix) ==
    IF IsUtf8(inner) /\ BytesStartsWith(inner, prefix)
    THEN [out |-> <<Slice(inner, Len(prefix), Len(inner))>>, panic |-> FALSE]
    ELSE [out |-> <<>>, panic |-> FALSE]

\* Slice::remove_prefix_str: [out |-> Option<rest>, panic]
SliceRemovePrefixStr(inner, prefix) ==
    IF BytesStartsWith(inner, prefix)
    THEN LET rest == SliceFrom(inner, Len(prefix))
         IN  [out |-> IF rest.panic THEN <<>> ELSE <<rest.val>>, panic |-> rest.panic]
    ELSE [out |-> <<>>, panic |-> FALSE]

(***************************************************************************)
(* The iterators as a state machine: one iterator (Matches or Split) over  *)
(* one buffer and one pattern, driven by calls of next() and next_back().  *)
(* RMatches and RSplit are the same drivers with the two calls swapped.    *)
(***************************************************************************)
VARIABLES
    slice,      \* the byte buffer
    pat,        \* the pattern
    kind,       \* "Matches" (a MatchImpl) or "Split" (a SplitImpl)
    it,         \* the driver: a SplitImpl record; Matches uses it.matches only
    fronts,     \* the items returned by next(), in call order
    backs,      \* the items returned by next_back(), in call order
    frontNone,  \* next() has returned None
    backNone,   \* next_back() has returned None
    panicked,   \* a call has panicked
    finals,     \* how often Split took the branch "matches exhausted"
    twin,       \* <<>>, or <<t>> once the iterator was cloned: t.it is the
                \* clone, t.calls / t.outs the calls made on it and their
                \* results, t.origCalls / t.origOuts those made on the
                \* original since the clone was taken
    os,         \* an OsString: [platform, inner], inner its content bytes
    ret,        \* the last operation on os: [op, arg, out], arg the
                \* content the operation was called on
    hist,       \* how os was built: [base, pieces], base the content it
                \* was constructed with, pieces the pieces pushed since
    splitn      \* SplitN / RSplitN: [n, count], count the pieces still
                \* allowed, n the count the iterator was built with

vars == <<slice, pat, kind, it, fronts, backs, frontNone, backNone, panicked, finals, twin,
          os, ret, hist, splitn>>

Init ==
    /\ slice \in Buffers
    /\ pat \in Patterns
    /\ kind \in {"Matches", "Split"}
    /\ it = SplitImplNew(slice)
    /\ fronts = <<>>
    /\ backs = <<>>
    /\ frontNone = FALSE
    /\ backNone = FALSE
    /\ panicked = FALSE
    /\ finals = 0
    /\ twin = <<>>
    /\ os = OsStringNew("unix")
    /\ ret = [op |-> "new", arg |-> <<>>, out |-> <<>>]
    /\ hist = [base |-> <<>>, pieces |-> <<>>]
    /\ splitn = [n |-> 0, count |-> 0]

\* Calls made on each copy after a clone are counted up to this bound.
MaxCloneCalls == 2

\* Both directions may be used on one iterator only when the engine is
\* double-ended (the DoubleEndedIterator impls); otherwise the iterator is
\* Matches/Split (next only) or RMatches/RSplit (next_back only).
MayCallFront ==
    \/ DoubleEnded(pat)
    \/ /\ backs = <<>> /\ ~backNone
       /\ twin # <<>> => \A i \in 1..Len(twin[1].calls) : twin[1].calls[i] = "f"

MayCallBack ==
    \/ DoubleEnded(pat)
    \/ /\ fronts = <<>> /\ ~frontNone
       /\ twin # <<>> => \A i \in 1..Len(twin[1].calls) : twin[1].calls[i] = "b"

\* The original may be called while the calls since the clone are counted.
OriginalMayRun == IF twin = <<>> THEN TRUE ELSE Len(twin[1].origCalls) < MaxCloneCalls

\* Matches::next (RMatches::next_back): MatchImpl::next
MatchesNext ==
    /\ kind = "Matches" /\ ~panicked /\ MayCallFront /\ OriginalMayRun
    /\ \E r \in {MatchImplNext(it.matches, pat)} :
           /\ it' = [it EXCEPT !.matches = r.m]
           /\ panicked' = r.panic
           /\ fronts' = fronts \o r.out
           /\ twin' = IF twin = <<>> THEN twin
                   ELSE <<[twin[1] EXCEPT
                             !.origCalls = Append(@, "f"),
                             !.origOuts = Append(@, [out |-> r.out, panic |-> r.panic])]>>
           /\ frontNone' = (frontNone \/ (r.out = <<>> /\ ~r.panic))
    /\ UNCHANGED <<slice, pat, kind, splitn, backs, backNone, finals, os, ret, hist>>

\* Matches::next_back (RMatches::next): MatchImpl::next_back
MatchesNextBack ==
    /\ kind = "Matches" /\ ~panicked /\ MayCallBack /\ OriginalMayRun
    /\ \E r \in {MatchImplNextBack(it.matches, pat)} :
           /\ it' = [it EXCEPT !.matches = r.m]
           /\ panicked' = r.panic
           /\ backs' = backs \o r.out
           /\ twin' = IF twin = <<>> THEN twin
                   ELSE <<[twin[1] EXCEPT
                             !.origCalls = Append(@, "b"),
                             !.origOuts = Append(@, [out |-> r.out, panic |-> r.panic])]>>
           /\ backNone' = (backNone \/ (r.out = <<>> /\ ~r.panic))
    /\ UNCHANGED <<slice, pat, kind, splitn, fronts, frontNone, finals, os, ret, hist>>

\* Split::next (RSplit::next_back): SplitImpl::next
SplitNext ==
    /\ kind = "Split" /\ ~panicked /\ MayCallFront /\ OriginalMayRun
    /\ \E r \in {SplitImplNext(it, slice, pat)}, mr \in {MatchImplNext(it.matches, pat)} :
           /\ it' = r.s
           \* the else branch is taken: no match left, no panic
           /\ finals' = finals + (IF ~Exhausted(it) /\ ~mr.panic /\ mr.out = <<>>
                                  THEN 1 ELSE 0)
           /\ panicked' = r.panic
           /\ fronts' = fronts \o r.out
           /\ twin' = IF twin = <<>> THEN twin
                   ELSE <<[twin[1] EXCEPT
                             !.origCalls = Append(@, "f"),
                             !.origOuts = Append(@, [out |-> r.out, panic |-> r.panic])]>>
           /\ frontNone' = (frontNone \/ (r.out = <<>> /\ ~r.panic))
    /\ UNCHANGED <<slice, pat, kind, splitn, backs, backNone, os, ret, hist>>

\* Split::next_back (RSplit::next): SplitImpl::next_back
SplitNextBack ==
    /\ kind = "Split" /\ ~panicked /\ MayCallBack /\ OriginalMayRun
    /\ \E r \in {SplitImplNextBack(it, slice, pat)}, mr \in {MatchImplNextBack(it.matches, pat)} :
           /\ it' = r.s
           \* the else branch is taken: no match left, no panic
           /\ finals' = finals + (IF ~Exhausted(it) /\ ~mr.panic /\ mr.out = <<>>
                                  THEN 1 ELSE 0)
           /\ panicked' = r.panic
           /\ backs' = backs \o r.out
           /\ twin' = IF twin = <<>> THEN twin
                   ELSE <<[twin[1] EXCEPT
                             !.origCalls = Append(@, "b"),
                             !.origOuts = Append(@, [out |-> r.out, panic |-> r.panic])]>>
           /\ backNone' = (backNone \/ (r.out = <<>> /\ ~r.panic))
    /\ UNCHANGED <<slice, pat, kind, splitn, fronts, frontNone, os, ret, hist>>

Next == MatchesNext \/ MatchesNextBack \/ SplitNext \/ SplitNextBack

Spec == Init /\ [][Next]_vars

\* The caller keeps calling next() / next_back() while a call is possible.
SpecLive == Init /\ [][Next]_vars /\ WF_vars(Next)

(***************************************************************************)
(* The Section Partitioner pulled directly (Slice::utf8_sections): fronts  *)
(* and backs log the sections pulled from either end.                      *)
(***************************************************************************)
InitSections ==
    /\ slice \in Buffers
    /\ pat = CharA
    /\ kind = "Sections"
    /\ it = SplitImplNew(slice)
    /\ fronts = <<>>
    /\ backs = <<>>
    /\ frontNone = FALSE
    /\ backNone = FALSE
    /\ panicked = FALSE
    /\ finals = 0
    /\ twin = <<>>
    /\ os = OsStringNew("unix")
    /\ ret = [op |-> "new", arg |-> <<>>, out |-> <<>>]
    /\ hist = [base |-> <<>>, pieces |-> <<>>]
    /\ splitn = [n |-> 0, count |-> 0]

\* Utf8Sections as Iterator
SectionsNext ==
    /\ kind = "Sections"
    /\ LET r == Utf8SectionsNext(it.matches.sections)
       IN  /\ it' = [it EXCEPT !.matches.sections = r.it]
           /\ fronts' = fronts \o r.out
           /\ frontNone' = (frontNone \/ r.out = <<>>)
    /\ UNCHANGED <<slice, pat, kind, splitn, backs, backNone, panicked, finals, twin, os, ret, hist>>

\* Utf8Sections as DoubleEndedIterator
SectionsNextBack ==
    /\ kind = "Sections"
    /\ LET r == Utf8SectionsNextBack(it.matches.sections)
       IN  /\ it' = [it EXCEPT !.matches.sections = r.it]
           /\ backs' = backs \o r.out
           /\ backNone' = (backNone \/ r.out = <<>>)
    /\ UNCHANGED <<slice, pat, kind, splitn, fronts, frontNone, panicked, finals, twin, os, ret, hist>>

NextSections == SectionsNext \/ SectionsNextBack

SpecSections == InitSections /\ [][NextSections]_vars

(***************************************************************************)
(* splitn / rsplitn: a Split Driver limited to a number of pieces; fronts  *)
(* logs the pieces of SplitN, backs those of RSplitN.                      *)
(***************************************************************************)
\* The largest count given to splitn / rsplitn.
MaxCount == 3

InitSplitN ==
    /\ slice \in Buffers
    /\ pat \in Patterns
    /\ kind \in {"SplitN", "RSplitN"}
    /\ it = SplitImplNew(slice)
    /\ fronts = <<>>
    /\ backs = <<>>
    /\ frontNone = FALSE
    /\ backNone = FALSE
    /\ panicked = FALSE
    /\ finals = 0
    /\ twin = <<>>
    /\ os = OsStringNew("unix")
    /\ ret = [op |-> "new", arg |-> <<>>, out |-> <<>>]
    /\ hist = [base |-> <<>>, pieces |-> <<>>]
    /\ \E n \in 0..MaxCount : splitn = [n |-> n, count |-> n]

\* SplitN::next
SplitNNext ==
    /\ kind = "SplitN" /\ ~panicked
    /\ \E r \in {SplitNImplNext(it, splitn.count, slice, pat, "f")} :
           /\ it' = r.s
           /\ splitn' = [splitn EXCEPT !.count = SplitNCountAfter(@)]
           /\ panicked' = r.panic
           /\ fronts' = fronts \o r.out
           /\ frontNone' = (frontNone \/ (r.out = <<>> /\ ~r.panic))
    /\ UNCHANGED <<slice, pat, kind, backs, backNone, finals, twin, os, ret, hist>>

\* RSplitN::next
RSplitNNext ==
    /\ kind = "RSplitN" /\ ~panicked
    /\ \E r \in {SplitNImplNext(it, splitn.count, slice, pat, "b")} :
           /\ it' = r.s
           /\ splitn' = [splitn EXCEPT !.count = SplitNCountAfter(@)]
           /\ panicked' = r.panic
           /\ backs' = backs \o r.out
           /\ backNone' = (backNone \/ (r.out = <<>> /\ ~r.panic))
    /\ UNCHANGED <<slice, pat, kind, fronts, frontNone, finals, twin, os, ret, hist>>

NextSplitN == SplitNNext \/ RSplitNNext

SpecSplitN == InitSplitN /\ [][NextSplitN]_vars

(***************************************************************************)
(* An OsString that starts empty, grows by push, and is converted.         *)
(***************************************************************************)
\* The pieces pushed: on "unix" any bytes, on "windows" well-formed WTF-8.
OsPieces(platform) ==
    IF platform = "unix"
    THEN {<<0>>, <<97>>, <<108>>, <<255>>, EAcute}
    ELSE {<<0>>, <<97>>, EAcute, SurrogateD800}

\* The byte sequences handed to from_bytes.
OsByteInputs == SeqsUpTo(Alphabet, 2) \cup {<<0>>, EAcute, SurrogateD800, Hello}

\* The needles searched for by contains_os.
OsNeedles == SeqsUpTo(Alphabet, 2)

\* The &str prefixes handed to starts_with_str and remove_prefix_str:
\* "", "a", "al", e-acute, "he".
OsPrefixes == {<<>>, <<97>>, <<97, 108>>, EAcute, <<104, 101>>}

\* The characters handed to split_off_str, as their encodings: 'a', 'l', e-acute.
OsChars == {<<97>>, <<108>>, EAcute}

InitOs ==
    /\ slice = <<>>
    /\ pat = CharA
    /\ kind = "OsString"
    /\ it = SplitImplNew(slice)
    /\ fronts = <<>>
    /\ backs = <<>>
    /\ frontNone = FALSE
    /\ backNone = FALSE
    /\ panicked = FALSE
    /\ finals = 0
    /\ twin = <<>>
    /\ \E platform \in {"unix", "windows"} : os = OsStringNew(platform)
    /\ ret = [op |-> "new", arg |-> <<>>, out |-> <<>>]
    /\ hist = [base |-> <<>>, pieces |-> <<>>]
    /\ splitn = [n |-> 0, count |-> 0]

OsUnchanged ==
    UNCHANGED <<slice, pat, kind, splitn, it, fronts, backs, frontNone, backNone, panicked, finals, twin>>

\* OsString::from_bytes: on Some the caller holds the new string.
OsFromBytes ==
    /\ kind = "OsString"
    /\ \E b \in OsByteInputs : \E r \in {OsStringFromBytes(os.platform, b)} :
           /\ ret' = [op |-> "from_bytes", arg |-> b, out |-> r]
           /\ os' = IF r = <<>> THEN os ELSE r[1]
           /\ hist' = IF r = <<>> THEN hist ELSE [base |-> r[1].inner, pieces |-> <<>>]
    /\ OsUnchanged

\* OsString::clear (the unix buffer)
OsClear ==
    /\ kind = "OsString" /\ os.platform = "unix"
    /\ os' = [os EXCEPT !.inner = BufClear(os.inner)]
    /\ ret' = [op |-> "clear", arg |-> os.inner, out |-> <<>>]
    /\ hist' = [base |-> <<>>, pieces |-> <<>>]
    /\ OsUnchanged

\* OsStr::to_string_lossy (the unix buffer)
OsToStringLossy ==
    /\ kind = "OsString" /\ os.platform = "unix"
    /\ ret' = [op |-> "to_string_lossy", arg |-> os.inner,
               out |-> SliceToStringLossy(os.inner)]
    /\ UNCHANGED <<os, hist>>
    /\ OsUnchanged

\* OsStr::to_cstring
OsToCstring ==
    /\ kind = "OsString"
    /\ ret' = [op |-> "to_cstring", arg |-> os.inner,
               out |-> OsStrToCstring(os.platform, os.inner)]
    /\ UNCHANGED <<os, hist>>
    /\ OsUnchanged

\* OsString::push
OsPush ==
    /\ kind = "OsString"
    /\ \E s \in OsPieces(os.platform) :
           /\ Len(os.inner) + Len(s) <= MaxOsLen
           /\ os' = [os EXCEPT !.inner = BufPushSlice(os.platform, os.inner, s)]
           /\ ret' = [op |-> "push", arg |-> os.inner, out |-> <<>>]
           /\ hist' = [hist EXCEPT !.pieces = Append(@, s)]
    /\ OsUnchanged

\* OsString::into_string: on Err the caller holds the returned OsString
\* (on Ok os keeps the content that was moved into the text).
OsIntoString ==
    /\ kind = "OsString"
    /\ LET r == OsStringIntoString(os.platform, os.inner)
       IN  /\ ret' = [op |-> "into_string", arg |-> os.inner, out |-> r]
           /\ os' = IF r.ok THEN os ELSE [os EXCEPT !.inner = r.val]
           /\ hist' = hist
    /\ OsUnchanged

\* OsStr::to_str
OsToStr ==
    /\ kind = "OsString"
    /\ ret' = [op |-> "to_str", arg |-> os.inner, out |-> OsStrToStr(os.platform, os.inner)]
    /\ UNCHANGED <<os, hist>>
    /\ OsUnchanged

\* OsStr::to_bytes
OsToBytes ==
    /\ kind = "OsString"
    /\ ret' = [op |-> "to_bytes", arg |-> os.inner, out |-> OsStrToBytes(os.platform, os.inner)]
    /\ UNCHANGED <<os, hist>>
    /\ OsUnchanged

\* OsStr::contains_os (the byte search of the unix representation)
OsContainsOs ==
    /\ kind = "OsString" /\ os.platform = "unix"
    /\ \E needle \in OsNeedles :
           ret' = [op |-> "contains_os", arg |-> os.inner, needle |-> needle,
                   out |-> SliceContainsOs(os.inner, needle)]
    /\ UNCHANGED <<os, hist>>
    /\ OsUnchanged

\* OsStr::split_off_str (unix only)
OsSplitOffStr ==
    /\ kind = "OsString" /\ os.platform = "unix"
    /\ \E boundary \in OsChars : \E r \in {SliceSplitOffStr(os.inner, boundary)} :
           ret' = [op |-> "split_off_str", arg |-> os.inner, needle |-> boundary,
                   out |-> r.out, panic |-> r.panic]
    /\ UNCHANGED <<os, hist>>
    /\ OsUnchanged

\* OsStr::slice_shift_char (unix only)
OsSliceShiftChar ==
    /\ kind = "OsString" /\ os.platform = "unix"
    /\ \E r \in {SliceShiftChar(os.inner)} :
           ret' = [op |-> "slice_shift_char", arg |-> os.inner,
                   out |-> r.out, panic |-> r.panic]
    /\ UNCHANGED <<os, hist>>
    /\ OsUnchanged

\* OsStr::starts_with_str (unix only)
OsStartsWithStr ==
    /\ kind = "OsString" /\ os.platform = "unix"
    /\ \E prefix \in OsPrefixes :
           ret' = [op |-> "starts_with_str", arg |-> os.inner, needle |-> prefix,
                   out |-> SliceStartsWithStr(os.inner, prefix)]
    /\ UNCHANGED <<os, hist>>
    /\ OsUnchanged

\* OsStr::remove_prefix_str (unix only)
OsRemovePrefixStr ==
    /\ kind = "OsString" /\ os.platform = "unix"
    /\ \E prefix \in OsPrefixes : \E r \in {SliceRemovePrefixStr(os.inner, prefix)} :
           ret' = [op |-> "remove_prefix_str", arg |-> os.inner, needle |-> prefix,
                   out |-> r.out, panic |-> r.panic]
    /\ UNCHANGED <<os, hist>>
    /\ OsUnchanged

NextOs ==
    \/ OsPush \/ OsIntoString \/ OsToStr \/ OsToBytes \/ OsContainsOs
    \/ OsFromBytes \/ OsClear \/ OsToCstring \/ OsToStringLossy
    \/ OsSplitOffStr \/ OsSliceShiftChar
    \/ OsStartsWithStr \/ OsRemovePrefixStr

SpecOs == InitOs /\ [][NextOs]_vars

(***************************************************************************)
(* Cloning: the iterator is cloned once, in any state it can reach; after  *)
(* that the original and the clone are called independently.               *)
(***************************************************************************)
\* Clone::clone of Matches / Split
CloneIt ==
    /\ twin = <<>> /\ ~panicked
    /\ twin' = <<[it |-> SplitImplClone(it), panicked |-> FALSE,
                  calls |-> <<>>, outs |-> <<>>,
                  origCalls |-> <<>>, origOuts |-> <<>>]>>
    /\ UNCHANGED <<slice, pat, kind, splitn, it, fronts, backs, frontNone, backNone, panicked, finals, os, ret, hist>>

\* A call of next() (dir "f") or next_back() (dir "b") on the clone.
TwinCall(dir) ==
    /\ twin # <<>> /\ ~twin[1].panicked /\ Len(twin[1].calls) < MaxCloneCalls
    /\ \E t \in {twin[1]} : \E r \in {DriverCall(kind, t.it, slice, pat, dir)} :
           twin' = <<[t EXCEPT !.it = r.s,
                               !.panicked = r.panic,
                               !.calls = Append(@, dir),
                               !.outs = Append(@, [out |-> r.out, panic |-> r.panic])]>>
    /\ UNCHANGED <<slice, pat, kind, splitn, it, fronts, backs, frontNone, backNone, panicked, finals, os, ret, hist>>

TwinNext ==
    /\ MayCallFront
    /\ twin # <<>> /\ (DoubleEnded(pat) \/
                        \A i \in 1..Len(twin[1].origCalls) : twin[1].origCalls[i] = "f")
    /\ TwinCall("f")

TwinNextBack ==
    /\ MayCallBack
    /\ twin # <<>> /\ (DoubleEnded(pat) \/
                        \A i \in 1..Len(twin[1].origCalls) : twin[1].origCalls[i] = "b")
    /\ TwinCall("b")

NextClone == Next \/ CloneIt \/ TwinNext \/ TwinNextBack

SpecClone == Init /\ [][NextClone]_vars

(***************************************************************************)
(* Reference streams used by the properties.                               *)
(***************************************************************************)
\* Only next() has been called so far / only next_back() has been called.
ForwardOnly == backs = <<>> /\ ~backNone /\ ~panicked

BackwardOnly == fronts = <<>> /\ ~frontNone /\ ~panicked

\* The forward-only stream of the Match Driver: next() until None.
RECURSIVE DrainMatches(_, _, _)
DrainMatches(m, p, acc) ==
    LET r == MatchImplNext(m, p)
    IN  IF r.out = <<>> THEN acc ELSE DrainMatches(r.m, p, acc \o r.out)

ForwardMatches(b, p) == DrainMatches(MatchImplNew(b), p, <<>>)

\* The forward-only stream of the Split Driver: next() until None.
RECURSIVE DrainSplit(_, _, _, _)
DrainSplit(s, b, p, acc) ==
    LET r == SplitImplNext(s, b, p)
    IN  IF r.out = <<>> THEN acc ELSE DrainSplit(r.s, b, p, acc \o r.out)

ForwardPieces(b, p) == DrainSplit(SplitImplNew(b), b, p, <<>>)

\* str::match_indices on validated text: one engine over the whole text.
RECURSIVE StdDrain(_, _)
StdDrain(s, acc) ==
    LET r == NextMatch(s)
    IN  IF r.m = <<>> THEN acc
        ELSE StdDrain(r.s, Append(acc, <<r.m[1][1], Slice(s.haystack, r.m[1][1], r.m[1][2])>>))

StdMatches(text, p) == StdDrain(IntoSearcher(p, text), <<>>)

\* str::split on validated text: the pieces between the matches, then the
\* rest of the text (which may be empty).
RECURSIVE StdSplitLoop(_, _, _)
StdSplitLoop(s, start, acc) ==
    LET r == NextMatch(s)
    IN  IF r.m = <<>> THEN Append(acc, Slice(s.haystack, start, Len(s.haystack)))
        ELSE StdSplitLoop(r.s, r.m[1][2], Append(acc, Slice(s.haystack, start, r.m[1][1])))

StdSplit(text, p) == StdSplitLoop(IntoSearcher(p, text), 0, <<>>)

\* Offsets at which the bytes of needle n occur in b.
Occurrences(b, n) == {i \in 0..(Len(b) - Len(n)) : Slice(b, i, i + Len(n)) = n}

\* No two occurrences of n in b share a byte.
NoOverlap(b, n) == \A i, j \in Occurrences(b, n) : i < j => i + Len(n) <= j

\* No byte of b starts or continues a well-formed character.
AllInvalid(b) == \A i \in 0..(Len(b) - 1) : CharLenAt(b, i) = 0

\* p0 m1 p1 ... mk pk for pieces ps and matches ms.
RECURSIVE Weave(_, _)
Weave(ps, ms) ==
    IF ps = <<>> THEN <<>>
    ELSE IF ms = <<>> THEN Head(ps)
    ELSE Head(ps) \o Head(ms)[2] \o Weave(Tail(ps), Tail(ms))

(***************************************************************************)
(* Properties.                                                             *)
(***************************************************************************)
\* C1: for a double-ended pattern no call of the Match Driver fails, and
\* once next() and next_back() have both returned None the matches returned
\* by next() followed by those of next_back() reversed are the forward-only
\* stream: no match is duplicated or skipped.
C1_InterleavingYieldsEachMatchOnce ==
    (kind = "Matches" /\ DoubleEnded(pat)) =>
        /\ ~panicked
        /\ (frontNone /\ backNone) => fronts \o Reverse(backs) = ForwardMatches(slice, pat)

\* C2: no call of next() or next_back() on any of the iterators panics.
C2_NoPanic == ~panicked

\* C3: the pieces of a forward split number one more than the forward
\* matches, and pieces and matches woven together give back the buffer.
C3_SplitReconstructsBuffer ==
    (kind = "Split" /\ frontNone /\ ForwardOnly) =>
        LET ms == ForwardMatches(slice, pat)
        IN  /\ Len(ms) = Len(fronts) - 1
            /\ Weave(fronts, ms) = slice

C3_Witness ==
    /\ kind = "Split" /\ frontNone /\ ForwardOnly
    /\ Len(fronts) >= 3 /\ ~IsUtf8(slice)

\* C4 as stated: for every pattern that can search backward, the
\* backward-only matches are the forward-only matches reversed.
C4_DirectionSymmetryAllPatterns ==
    (kind = "Matches" /\ backNone /\ BackwardOnly) =>
        backs = Reverse(ForwardMatches(slice, pat))

\* C4 amended: the backward-only matches are the forward-only matches
\* reversed whenever no two occurrences of the pattern in the buffer overlap.
C4_DirectionSymmetry ==
    (kind = "Matches" /\ backNone /\ BackwardOnly /\ NoOverlap(slice, pat.needle)) =>
        backs = Reverse(ForwardMatches(slice, pat))

C4_Witness ==
    /\ kind = "Matches" /\ backNone /\ BackwardOnly
    /\ pat.kind = "str" /\ pat.needle # <<>> /\ NoOverlap(slice, pat.needle)
    /\ Len(backs) >= 2 /\ ~IsUtf8(slice)

\* C5: on a buffer that is valid UTF-8 the forward matches and the forward
\* pieces are those of matching and splitting on validated text.
C5_ValidBufferEqualsStd ==
    (IsUtf8(slice) /\ frontNone /\ ForwardOnly) =>
        fronts = (IF kind = "Matches" THEN StdMatches(slice, pat) ELSE StdSplit(slice, pat))

\* A run of the Match Driver over "he" 0xFF "llo" and 'l' that is complete:
\* forward only, or from both ends until both have returned None.
C6_RunComplete ==
    /\ kind = "Matches" /\ slice = HeXllo /\ pat = CharL
    /\ ((frontNone /\ ForwardOnly) \/ (frontNone /\ backNone))

\* C6 as stated: "he" 0xFF "llo" matched on 'l' yields exactly the matches
\* (4, "l") and (5, "l").
C6_HeXlloMatchesAt4And5 ==
    C6_RunComplete => fronts \o Reverse(backs) = <<<<4, <<108>>>>, <<5, <<108>>>>>>

\* C6 amended: "he" 0xFF "llo" matched on 'l' yields exactly the matches
\* (3, "l") and (4, "l"): offsets into the original buffer, in which the
\* section "llo" starts at offset 3.
C6_HeXlloMatches ==
    C6_RunComplete => fronts \o Reverse(backs) = <<<<3, <<108>>>>, <<4, <<108>>>>>>

C6_Witness ==
    /\ kind = "Matches" /\ slice = HeXllo /\ pat = CharL
    /\ frontNone /\ ForwardOnly /\ Len(fronts) = 2

\* C7: a forward split piece is the bytes of the buffer between the end of
\* the previous match (or the buffer start) and the start of the next match
\* (or the buffer end), invalid bytes included; "he" 0xFF "llo" split on 'l'
\* yields "he" 0xFF, "" and "o".
C7_PiecesAreBufferRanges ==
    (kind = "Split" /\ frontNone /\ ForwardOnly) =>
        LET ms == ForwardMatches(slice, pat)
            lo(i) == IF i = 1 THEN 0 ELSE ms[i - 1][1] + Len(ms[i - 1][2])
            hi(i) == IF i = Len(ms) + 1 THEN Len(slice) ELSE ms[i][1]
        IN  /\ fronts = [i \in 1..(Len(ms) + 1) |-> Slice(slice, lo(i), hi(i))]
            /\ (slice = HeXllo /\ pat = CharL) =>
                   fronts = <<<<104, 101, 255>>, <<>>, <<111>>>>

C7_Witness ==
    /\ kind = "Split" /\ frontNone /\ ForwardOnly
    /\ slice = HeXllo /\ pat = CharL /\ Len(fronts) = 3

\* C8: for a single-char pattern rsplit yields the pieces of split in
\* reverse order and rmatches the matches of matches in reverse order;
\* "hello" on 'l' gives "he", "", "o" forward and "o", "", "he" backward.
C8_ReverseYieldsReversed ==
    DoubleEnded(pat) =>
        /\ (backNone /\ BackwardOnly) =>
               backs = Reverse(IF kind = "Split" THEN ForwardPieces(slice, pat)
                               ELSE ForwardMatches(slice, pat))
        /\ (kind = "Split" /\ slice = Hello /\ pat = CharL) =>
               /\ (frontNone /\ ForwardOnly) => fronts = <<<<104, 101>>, <<>>, <<111>>>>
               /\ (backNone /\ BackwardOnly) => backs = <<<<111>>, <<>>, <<104, 101>>>>

C8_Witness ==
    /\ kind = "Split" /\ slice = Hello /\ pat = CharL
    /\ backNone /\ BackwardOnly /\ Len(backs) = 3

\* C9: split run in one direction yields one empty piece on the empty
\* buffer, the whole buffer when the pattern occurs nowhere in it, and two
\* empty pieces when the buffer is exactly the (non-empty) pattern.
C9_SplitDegenerateCases ==
    \A dir \in {"front", "back"} :
        LET complete == IF dir = "front" THEN frontNone /\ ForwardOnly
                        ELSE backNone /\ BackwardOnly
            pieces == IF dir = "front" THEN fronts ELSE backs
        IN  (kind = "Split" /\ complete) =>
                /\ slice = <<>> => pieces = <<<<>>>>
                /\ Occurrences(slice, pat.needle) = {} => pieces = <<slice>>
                /\ (slice = pat.needle /\ slice # <<>>) => pieces = <<<<>>, <<>>>>

C9_Witness ==
    /\ kind = "Split" /\ backNone /\ BackwardOnly
    /\ slice = pat.needle /\ Len(slice) = 2 /\ backs = <<<<>>, <<>>>>

\* C10: on an all-invalid buffer the Match Driver yields nothing in either
\* direction, and split yields the whole buffer once and then None.
C10_AllInvalidBuffer ==
    AllInvalid(slice) =>
        /\ ~panicked
        /\ kind = "Matches" => (fronts = <<>> /\ backs = <<>>)
        /\ kind = "Split" =>
               /\ Len(fronts) + Len(backs) <= 1
               /\ \A i \in 1..Len(fronts \o backs) : (fronts \o backs)[i] = slice
               /\ (frontNone \/ backNone) => Len(fronts) + Len(backs) = 1

C10_Witness ==
    /\ kind = "Split" /\ slice # <<>> /\ AllInvalid(slice) /\ pat = StrEmpty
    /\ frontNone /\ fronts = <<slice>>

\* The item returned by the call that made this step.
EmittedInStep ==
    IF fronts' # fronts THEN fronts'[Len(fronts')] ELSE backs'[Len(backs')]

\* C11: when the Match Driver reports no more matches the Split Driver
\* emits one final piece, the bytes [remainder.low, remainder.high), and
\* sets remainder.low = remainder.high + 1; this happens at most once, and
\* from then on every call of next() or next_back() returns None.
C11_FinalPieceOnce ==
    [][kind = "Split" =>
        /\ finals' # finals =>
              /\ finals = 0 /\ finals' = 1
              /\ Len(fronts') + Len(backs') = Len(fronts) + Len(backs) + 1
              /\ EmittedInStep = Slice(slice, it.remainder[1], it.remainder[2])
              /\ it'.remainder = <<it.remainder[2] + 1, it.remainder[2]>>
        /\ finals = 1 =>
              /\ fronts' = fronts /\ backs' = backs
              /\ ~panicked' /\ (frontNone' \/ backNone')
       ]_vars

C11_Witness ==
    /\ kind = "Split" /\ finals = 1 /\ frontNone /\ backNone
    /\ Len(fronts) >= 2 /\ fronts[Len(fronts)] = <<>> /\ backs = <<>>

\* The remainder range is well formed: high <= buffer length and
\* low <= high + 1; high < low exactly when the final piece was emitted.
C12_RemainderInv ==
    /\ it.remainder[2] <= Len(slice)
    /\ it.remainder[1] <= it.remainder[2] + 1
    /\ (it.remainder[2] < it.remainder[1]) <=> (finals >= 1)

\* C12: over every sequence of calls on the Split Driver remainder.low
\* never decreases, remainder.high never increases, the remainder range is
\* well formed, high < low holds exactly when the final piece has been
\* emitted, and in that state the next call returns None.
C12_RemainderRange ==
    [][kind = "Split" =>
        /\ C12_RemainderInv /\ C12_RemainderInv'
        /\ it'.remainder[1] >= it.remainder[1]
        /\ it'.remainder[2] <= it.remainder[2]
        /\ (it.remainder[2] < it.remainder[1]) =>
              (fronts' = fronts /\ backs' = backs /\ ~panicked')
       ]_vars

C12_Witness ==
    /\ kind = "Split" /\ ~panicked /\ finals = 0
    /\ fronts # <<>> /\ backs # <<>>
    /\ it.remainder[1] > 0 /\ it.remainder[2] < Len(slice)

\* C13: whenever front_section.start_offset = back_section.start_offset
\* the two cursors hold the same section, text included, and the
\* partitioner has no section left to pull.
C13_ConvergedSameSection ==
    Converged(it.matches) =>
        /\ it.matches.front_section = it.matches.back_section
        /\ it.matches.sections.front + it.matches.sections.back
               = Len(it.matches.sections.all)

\* The match (o, t) lies in the buffer at offset o, inside one section.
MatchInOneSection(b, match) ==
    LET o == match[1]
        t == match[2]
    IN  /\ InRange(b, o, o + Len(t))
        /\ Slice(b, o, o + Len(t)) = t
        /\ IsUtf8(t)
        /\ \E k \in 1..Len(SectionsOf(b)) :
               LET sec == SectionsOf(b)[k]
               IN  sec[1] <= o /\ o + Len(t) <= sec[1] + Len(sec[2])

\* C14: every match (o, t) returned by next() or next_back() of the Match
\* Driver is where the buffer holds t: the bytes [o, o + len(t)) of the
\* buffer equal t, lie inside one valid section and hold no invalid byte.
C14_MatchesAreAbsolute ==
    kind = "Matches" =>
        /\ \A i \in 1..Len(fronts) : MatchInOneSection(slice, fronts[i])
        /\ \A i \in 1..Len(backs) : MatchInOneSection(slice, backs[i])

C14_Witness ==
    /\ kind = "Matches" /\ ~IsUtf8(slice)
    /\ fronts # <<>> /\ backs # <<>>
    /\ fronts[1][1] > 0 /\ backs[1][1] > fronts[1][1]

MaximalValidRuns(b) ==
    {r \in (0..Len(b)) \X (0..Len(b)) :
        /\ r[1] < r[2] /\ IsUtf8(Slice(b, r[1], r[2]))
        /\ \A a \in 0..r[1], e \in r[2]..Len(b) :
               IsUtf8(Slice(b, a, e)) => (a = r[1] /\ e = r[2])}

\* The sections pulled so far, in buffer order.
SectionsPulled == fronts \o Reverse(backs)

\* Pulled from both ends in any order, the sections come in strictly
\* increasing offset order without sharing a byte, each is a maximal valid
\* run of the buffer, and once an end has reported None every run was pulled.
SectionsEachOnce ==
    /\ \A i \in 1..Len(SectionsPulled) :
           /\ <<SectionsPulled[i][1], SectionsPulled[i][1] + Len(SectionsPulled[i][2])>>
                  \in MaximalValidRuns(slice)
           /\ SectionsPulled[i][2] =
                  Slice(slice, SectionsPulled[i][1], SectionsPulled[i][1] + Len(SectionsPulled[i][2]))
    /\ \A i, j \in 1..Len(SectionsPulled) :
           i < j => SectionsPulled[i][1] + Len(SectionsPulled[i][2]) < SectionsPulled[j][1]
    /\ (frontNone \/ backNone) => Len(SectionsPulled) = Cardinality(MaximalValidRuns(slice))

\* Two valid regions separated by one invalid byte are two sections.
SectionsNotMerged ==
    \A k \in 1..(Len(slice) - 2) :
        (/\ IsUtf8(Slice(slice, 0, k)) /\ IsUtf8(Slice(slice, k + 1, Len(slice)))
         /\ ~IsUtf8(Slice(slice, 0, k + 1)) /\ ~IsUtf8(Slice(slice, k, Len(slice)))
         /\ CharLenAt(slice, k) = 0)
            => SectionsPulled = << <<0, Slice(slice, 0, k)>>,
                                   <<k + 1, Slice(slice, k + 1, Len(slice))>> >>

C17_ContainsOs ==
    ret.op = "contains_os" =>
        /\ ret.arg = os.inner
        /\ ret.out <=> (ret.needle = <<>> \/ Occurrences(ret.arg, ret.needle) # {})

C17_Witness ==
    /\ ret.op = "contains_os" /\ ret.out
    /\ ret.arg = <<108, 97, 255>> /\ ret.needle = <<97, 255>>

\* C18: into_string returns Ok(text) exactly when the content is valid
\* UTF-8, the text being the content; otherwise it returns Err(s) with s
\* byte for byte the original, which the caller then holds.
C18_IntoString ==
    ret.op = "into_string" =>
        /\ ret.out.ok <=> IsUtf8(ret.arg)
        /\ ret.out.val = ret.arg
        /\ os.inner = ret.arg

C18_Witness ==
    /\ ret.op = "into_string" /\ os.platform = "unix"
    /\ ~ret.out.ok /\ ret.out.val = <<97, 255>>

\* C19: to_str returns Some(text) exactly when the whole buffer is valid
\* UTF-8 (one valid section spanning it, or the empty buffer), the text
\* being the buffer's bytes, and None for a buffer with an invalid byte.
C19_ToStr ==
    ret.op = "to_str" =>
        /\ ret.arg = os.inner
        /\ ret.out = (IF IsUtf8(ret.arg) THEN <<ret.arg>> ELSE <<>>)
        /\ ret.out # <<>> <=> (ret.arg = <<>> \/ SectionsOf(ret.arg) = << <<0, ret.arg>> >>)

C19_Witness ==
    /\ ret.op = "to_str" /\ os.platform = "unix"
    /\ ret.out = <<>> /\ ret.arg = <<97, 255, 108>>

\* C20: to_bytes on the unix representation returns Some(the buffer) for
\* every buffer; on the windows representation it returns Some(the UTF-8
\* bytes) exactly when the content is valid Unicode and None otherwise.
C20_ToBytes ==
    ret.op = "to_bytes" =>
        /\ ret.arg = os.inner
        /\ os.platform = "unix" => ret.out = <<ret.arg>>
        /\ os.platform = "windows" =>
               ret.out = (IF IsUtf8(ret.arg) THEN <<ret.arg>> ELSE <<>>)

C20_Witness ==
    /\ ret.op = "to_bytes" /\ os.platform = "unix"
    /\ ret.out = << <<255, 97>> >>

\* A zero byte somewhere in b.
HasZero(b) == \E i \in 1..Len(b) : b[i] = 0

\* C21: to_cstring returns None whenever the buffer holds a zero byte; on
\* the unix representation it returns Some (the bytes) exactly when there
\* is no zero byte; on the windows representation it also returns None when
\* to_bytes returns None.
C21_ToCstring ==
    ret.op = "to_cstring" =>
        /\ ret.arg = os.inner
        /\ HasZero(ret.arg) => ret.out = <<>>
        /\ os.platform = "unix" =>
               ret.out = (IF HasZero(ret.arg) THEN <<>> ELSE <<ret.arg>>)
        /\ os.platform = "windows" =>
               /\ OsStrToBytes(os.platform, ret.arg) = <<>> => ret.out = <<>>
               /\ ret.out # <<>> <=> (~HasZero(ret.arg) /\ IsUtf8(ret.arg))

C21_Witness ==
    /\ ret.op = "to_cstring" /\ os.platform = "unix"
    /\ ret.out = <<>> /\ ret.arg = <<97, 0, 255>>

\* C22: on the unix representation from_bytes(b) is Some(s) for every b and
\* s.to_bytes() is Some(b); on both representations valid UTF-8 bytes give
\* the string OsString::from gives for the same text; on the windows
\* representation from_bytes(b) is None exactly when b is not valid UTF-8.
C22_FromBytes ==
    ret.op = "from_bytes" =>
        /\ os.platform = "unix" =>
               /\ ret.out # <<>> /\ os = ret.out[1]
               /\ OsStrToBytes(os.platform, os.inner) = <<ret.arg>>
        /\ IsUtf8(ret.arg) =>
               /\ ret.out = <<OsStringFrom(os.platform, ret.arg)>>
               /\ os.inner = ret.arg
        /\ os.platform = "windows" => (ret.out = <<>> <=> ~IsUtf8(ret.arg))

C22_Witness ==
    /\ ret.op = "from_bytes" /\ os.platform = "unix"
    /\ ret.arg = <<255, 97>> /\ os.inner = <<255, 97>>

\* The pieces of a push history, joined in call order.
RECURSIVE Flatten(_)
Flatten(ps) == IF ps = <<>> THEN <<>> ELSE Head(ps) \o Flatten(Tail(ps))

\* C23: the content of a string that started empty is its pushed pieces
\* joined in call order; right after a piece that is not valid UTF-8 was
\* pushed onto valid content, into_string returns Err; clear() leaves the
\* empty OsString.
C23_PushAndClear ==
    /\ os.inner = hist.base \o Flatten(hist.pieces)
    /\ (/\ ret.op = "into_string" /\ hist.pieces # <<>>
        /\ ~IsUtf8(hist.pieces[Len(hist.pieces)])
        /\ IsUtf8(hist.base \o Flatten(SubSeq(hist.pieces, 1, Len(hist.pieces) - 1))))
           => ~ret.out.ok
    /\ ret.op = "clear" => os = OsStringNew(os.platform)

C23_Witness ==
    /\ ret.op = "into_string" /\ ~ret.out.ok /\ os.platform = "unix"
    /\ hist = [base |-> <<>>, pieces |-> <<EAcute, <<97>>, <<255>>>>]
    /\ os.inner = <<195, 169, 97, 255>>

\* The text in which every maximal run of bytes of b that belong to no
\* well-formed character is one U+FFFD and every character is kept.
RECURSIVE CollapseRuns(_, _, _, _)
CollapseRuns(b, i, inRun, acc) ==
    IF i >= Len(b) THEN acc
    ELSE IF CharLenAt(b, i) > 0
         THEN CollapseRuns(b, i + CharLenAt(b, i), FALSE,
                           acc \o Slice(b, i, i + CharLenAt(b, i)))
         ELSE CollapseRuns(b, i + 1, TRUE, IF inRun THEN acc ELSE acc \o Replacement)

\* C24: to_string_lossy returns the content itself, borrowed, when the
\* buffer is valid UTF-8, and otherwise the text in which each maximal run
\* of invalid bytes is exactly one U+FFFD and the valid sections are kept in
\* order.
C24_LossyCollapsesRuns ==
    ret.op = "to_string_lossy" =>
        IF IsUtf8(ret.arg)
        THEN ret.out = [borrowed |-> TRUE, text |-> ret.arg]
        ELSE ret.out = [borrowed |-> FALSE, text |-> CollapseRuns(ret.arg, 0, FALSE, <<>>)]

\* The backward-only streams of the Match Driver and of the Split Driver.
RECURSIVE DrainMatchesBack(_, _, _)
DrainMatchesBack(m, p, acc) ==
    LET r == MatchImplNextBack(m, p)
    IN  IF r.out = <<>> THEN acc ELSE DrainMatchesBack(r.m, p, acc \o r.out)

BackwardMatches(b, p) == DrainMatchesBack(MatchImplNew(b), p, <<>>)

RECURSIVE DrainSplitBack(_, _, _, _)
DrainSplitBack(s, b, p, acc) ==
    LET r == SplitImplNextBack(s, b, p)
    IN  IF r.out = <<>> THEN acc ELSE DrainSplitBack(r.s, b, p, acc \o r.out)

BackwardPieces(b, p) == DrainSplitBack(SplitImplNew(b), b, p, <<>>)

\* got is what splitn(n) / rsplitn(n) yielded, all the pieces and ms the
\* matches split / rsplit would yield, rest(m) the unsplit buffer beyond m.
LimitedSplit(got, n, all, ms, rest(_)) ==
    /\ Len(got) <= n
    /\ Len(got) = (IF Len(all) < n THEN Len(all) ELSE n)
    /\ \A i \in 1..Len(got) : i < n => got[i] = all[i]
    /\ (n >= 1 /\ Len(all) >= n) =>
           got[n] = (IF n = 1 THEN slice ELSE rest(ms[n - 1]))

RestAfter(m) == Slice(slice, m[1] + Len(m[2]), Len(slice))

RestBefore(m) == Slice(slice, 0, m[1])

C26_SplitInterleaving ==
    (kind = "Split" /\ DoubleEnded(pat)) =>
        /\ ~panicked
        /\ (frontNone \/ backNone) =>
               /\ Len(fronts) + Len(backs) = Len(ForwardMatches(slice, pat)) + 1
               /\ fronts \o Reverse(backs) = ForwardPieces(slice, pat)

\* The engines that are live are bound to the section their cursor pulled
\* last, and the cursors have not pulled more sections than there are.
EnginesOnOwnSections(m) ==
    /\ m.sections.front + m.sections.back <= Len(m.sections.all)
    /\ m.front_searcher # <<>> =>
           /\ m.sections.front >= 1
           /\ m.front_section = m.sections.all[m.sections.front]
           /\ m.front_searcher[1].haystack = m.front_section[2]
    /\ m.back_searcher # <<>> =>
           /\ m.sections.back >= 1
           /\ m.back_section = m.sections.all[Len(m.sections.all) + 1 - m.sections.back]
           /\ m.back_searcher[1].haystack = m.back_section[2]

\* C27: when both engines are live they are bound to two different
\* sections, the front one starting before the back one; an engine is only
\* ever bound to the section its cursor pulled last, and the cursors only
\* move on, so a section whose engine was discarded is not searched again.
C27_EnginesOnDistinctSections ==
    [][(kind = "Matches" \/ kind = "Split") =>
          /\ EnginesOnOwnSections(it.matches) /\ EnginesOnOwnSections(it'.matches)
          /\ (it'.matches.front_searcher # <<>> /\ it'.matches.back_searcher # <<>>) =>
                 /\ it'.matches.front_section[1] < it'.matches.back_section[1]
                 /\ it'.matches.front_section # it'.matches.back_section
          /\ it'.matches.sections.front >= it.matches.sections.front
          /\ it'.matches.sections.back >= it.matches.sections.back
      ]_vars

C27_Witness ==
    /\ kind = "Matches" /\ slice = <<97, 255, 97>> /\ pat = CharA
    /\ it.matches.front_searcher # <<>> /\ it.matches.back_searcher # <<>>
    /\ fronts = << <<0, <<97>>>> >> /\ backs = << <<2, <<97>>>> >>

\* C28: every call of next() / next_back() returns, and an iterator that is
\* called again and again returns None after finitely many calls.
C28_ReachesNone == <>(frontNone \/ backNone)

\* The length of the longest prefix of b that is valid UTF-8: the offset of
\* the first invalid byte, or the length of b when there is none.
ValidPrefixLen(b) ==
    CHOOSE i \in 0..Len(b) :
        /\ IsUtf8(Slice(b, 0, i))
        /\ \A j \in (i + 1)..Len(b) : ~IsUtf8(Slice(b, 0, j))

\* C29: split_off_str(c) returns Some((a, rest)) exactly when c occurs before
\* the first invalid byte of the buffer; then a holds no c and a, c and rest
\* joined give the buffer back; "hello" split at 'l' gives ("he", "lo"); a c
\* that occurs only after an invalid byte gives None; the call never panics.
C29_SplitOffStr ==
    ret.op = "split_off_str" =>
        LET b == ret.arg
            c == ret.needle
            before == Slice(b, 0, ValidPrefixLen(b))
        IN  /\ ~ret.panic
            /\ (ret.out # <<>>) <=> (Occurrences(before, c) # {})
            /\ ret.out # <<>> =>
                   /\ Occurrences(ret.out[1][1], c) = {}
                   /\ ret.out[1][1] \o c \o ret.out[1][2] = b
            /\ (b = Hello /\ c = <<108>>) =>
                   ret.out = << << <<104, 101>>, <<108, 111>> >> >>

\* 'l' stands before and after the invalid byte: the split is at the first.
C29_Witness ==
    /\ ret.op = "split_off_str"
    /\ ret.arg = <<97, 108, 255, 108>> /\ ret.needle = <<108>>
    /\ ret.out = << << <<97>>, <<255, 108>> >> >>

\* C30: slice_shift_char returns Some((c, rest)) exactly when the buffer
\* begins with a complete valid UTF-8 character; c is that character and c
\* followed by rest is the buffer; the empty buffer and a buffer whose first
\* byte is invalid give None, and the call never panics.
C30_SliceShiftChar ==
    ret.op = "slice_shift_char" =>
        LET b == ret.arg
            starts == {n \in 1..Len(b) : IsUtf8(Slice(b, 0, n))}
        IN  /\ ~ret.panic
            /\ (ret.out # <<>>) <=> (starts # {})
            /\ ret.out # <<>> =>
                   /\ Len(ret.out[1][1]) \in starts
                   /\ \A n \in starts : Len(ret.out[1][1]) <= n
                   /\ ret.out[1][1] \o ret.out[1][2] = b
            /\ (b = <<>> \/ (b # <<>> /\ CharLenAt(b, 0) = 0)) => ret.out = <<>>

\* A two-byte character is shifted off whole, the invalid byte stays in rest.
C30_Witness ==
    /\ ret.op = "slice_shift_char"
    /\ ret.arg = <<195, 169, 255>>
    /\ ret.out = << <<EAcute, <<255>>>> >>

\* Do the bytes of b begin with the bytes of p?
BeginsWith(b, p) ==
    /\ Len(p) <= Len(b)
    /\ \A i \in 1..Len(p) : b[i] = p[i]

\* C31: remove_prefix_str(p) returns Some(rest) exactly when starts_with_str(p)
\* is true, which is when the raw bytes of the buffer begin with the bytes of
\* p, whatever follows; then p followed by rest is the buffer; otherwise it
\* returns None; the buffer is left as it was and the call never panics
\* ("hello" without "he" is "llo").
C31_RemovePrefixStr ==
    /\ ret.op = "starts_with_str" => (ret.out <=> BeginsWith(ret.arg, ret.needle))
    /\ ret.op = "remove_prefix_str" =>
           /\ ~ret.panic
           /\ (ret.out # <<>>) <=> SliceStartsWithStr(ret.arg, ret.needle)
           /\ (ret.out # <<>>) <=> BeginsWith(ret.arg, ret.needle)
           /\ ret.out # <<>> => ret.needle \o ret.out[1] = ret.arg
           /\ os.inner = ret.arg
           /\ (ret.arg = Hello /\ ret.needle = <<104, 101>>) =>
                  ret.out = << <<108, 108, 111>> >>

\* The prefix "a" is removed from a buffer whose remainder is not valid UTF-8.
C31_Witness ==
    /\ ret.op = "remove_prefix_str"
    /\ ret.arg = <<97, 255, 108>> /\ ret.needle = <<97>>
    /\ ret.out = << <<255, 108>> >>
    /\ os.inner = <<97, 255, 108>>

====
